---- MODULE Spec2Model ----
(***************************************************************************)
(* A model of crates/engine/src/platform.rs: the Platform adapter over the *)
(* native multimedia library (window, input, rendering, audio callback).   *)
(*                                                                         *)
(* The native library is the environment: its event queue, the window      *)
(* size, the result of every fallible native call and the scheduling of    *)
(* its audio thread are nondeterministic.  The adapter's own code is       *)
(* translated operation by operation.                                      *)
(***************************************************************************)
EXTENDS Integers, Sequences, FiniteSets, TLC

VARIABLES
    sdl_event_queue,  \* the native library's event queue (front first)
    consumed,         \* history: native events poll_event took from the queue
    returned,         \* history: the events poll_event returned as Some(..)
    last_poll,        \* the last poll_event call: queue before/after, result, events taken
    platform,         \* "none" | "live" | "panicked"
    frame,            \* <<width, height>> given to Platform::new (texture size)
    pitch,            \* bytes per texture row, supplied by the texture lock
    buffer,           \* the streaming texture's bytes, 0 .. pitch*height-1
    window,           \* title, fullscreen state of the native window
    render,           \* the last render_screen call: inputs, buffer before, dst, presented
    calls,            \* native calls made by the operation in progress / last run
    failed,           \* the native call that reported failure in it ("" if none)
    outcome,          \* "idle" | "returned" | "panicked": how the last operation ended
    audio             \* audio device, audio thread, mutex and engine thread

vars == <<sdl_event_queue, consumed, returned, last_poll, platform, frame, pitch,
          buffer, window, render, calls, failed, outcome, audio>>

eventVars == <<sdl_event_queue, consumed, returned, last_poll>>
videoVars == <<frame, pitch, buffer, window, render>>
callVars  == <<calls, failed, outcome>>

(***************************************************************************)
(* Option<T>                                                               *)
(***************************************************************************)
None == <<"None">>
Some(v) == <<"Some", v>>
is_none(o) == o[1] = "None"
unwrap_some(o) == o[2]

(***************************************************************************)
(* Native enumerations (sdl2::mouse::MouseButton, sdl2::controller::Axis,  *)
(* sdl2::controller::Button) and the engine's (crate::event).  A value is  *)
(* <<enumeration, variant>>, so a native value never equals an engine one. *)
(***************************************************************************)
MouseButtonNames == {"Left", "Middle", "Right", "X1", "X2", "Unknown"}
AxisNames == {"LeftX", "LeftY", "RightX", "RightY", "TriggerLeft", "TriggerRight"}
ButtonNames == {"A", "B", "X", "Y", "Back", "Guide", "Start", "LeftStick",
                "RightStick", "LeftShoulder", "RightShoulder", "DPadUp",
                "DPadDown", "DPadLeft", "DPadRight"}

SdlMouseButton(n) == <<"SdlMouseButton", n>>
SdlAxis(n) == <<"SdlAxis", n>>
SdlButton(n) == <<"SdlButton", n>>
MouseButton(n) == <<"MouseButton", n>>
ControllerAxis(n) == <<"ControllerAxis", n>>
ControllerButton(n) == <<"ControllerButton", n>>

\* A native Scancode is <<"Scancode", discriminant>>; `scancode as u32` is the
\* discriminant (0 .. 511 in the native enumeration), as an unsigned number.
SdlScancode(n) == <<"Scancode", n>>
scancode_as_u32(scancode) == scancode[2]

\* `value as i32` of an i16: sign extension of the low 16 bits.
i16_as_i32(value) ==
    LET bits == (value + 65536) % 65536
    IN  IF bits >= 32768 THEN bits - 65536 ELSE bits

\* The match on mouse_btn inside the MouseButtonDown arm.
mouse_button_down_match(mouse_btn) ==
    CASE mouse_btn = SdlMouseButton("Left")    -> MouseButton("Left")
      [] mouse_btn = SdlMouseButton("Middle")  -> MouseButton("Middle")
      [] mouse_btn = SdlMouseButton("Right")   -> MouseButton("Right")
      [] mouse_btn = SdlMouseButton("X1")      -> MouseButton("X1")
      [] mouse_btn = SdlMouseButton("X2")      -> MouseButton("X2")
      [] mouse_btn = SdlMouseButton("Unknown") -> MouseButton("Unknown")

\* The match on mouse_btn inside the MouseButtonUp arm.
mouse_button_up_match(mouse_btn) ==
    CASE mouse_btn = SdlMouseButton("Left")    -> MouseButton("Left")
      [] mouse_btn = SdlMouseButton("Middle")  -> MouseButton("Middle")
      [] mouse_btn = SdlMouseButton("Right")   -> MouseButton("Right")
      [] mouse_btn = SdlMouseButton("X1")      -> MouseButton("X1")
      [] mouse_btn = SdlMouseButton("X2")      -> MouseButton("X2")
      [] mouse_btn = SdlMouseButton("Unknown") -> MouseButton("Unknown")

\* The match on axis inside the ControllerAxisMotion arm.
axis_match(axis) ==
    CASE axis = SdlAxis("LeftX")        -> ControllerAxis("LeftX")
      [] axis = SdlAxis("LeftY")        -> ControllerAxis("LeftY")
      [] axis = SdlAxis("RightX")       -> ControllerAxis("RightX")
      [] axis = SdlAxis("RightY")       -> ControllerAxis("RightY")
      [] axis = SdlAxis("TriggerLeft")  -> ControllerAxis("TriggerLeft")
      [] axis = SdlAxis("TriggerRight") -> ControllerAxis("TriggerRight")

\* The match on button inside the ControllerButtonDown arm.
button_down_match(button) ==
    CASE button = SdlButton("A")             -> ControllerButton("A")
      [] button = SdlButton("B")             -> ControllerButton("B")
      [] button = SdlButton("X")             -> ControllerButton("X")
      [] button = SdlButton("Y")             -> ControllerButton("Y")
      [] button = SdlButton("Back")          -> ControllerButton("Back")
      [] button = SdlButton("Guide")         -> ControllerButton("Guide")
      [] button = SdlButton("Start")         -> ControllerButton("Start")
      [] button = SdlButton("LeftStick")     -> ControllerButton("LeftStick")
      [] button = SdlButton("RightStick")    -> ControllerButton("RightStick")
      [] button = SdlButton("LeftShoulder")  -> ControllerButton("LeftShoulder")
      [] button = SdlButton("RightShoulder") -> ControllerButton("RightShoulder")
      [] button = SdlButton("DPadUp")        -> ControllerButton("DPadUp")
      [] button = SdlButton("DPadDown")      -> ControllerButton("DPadDown")
      [] button = SdlButton("DPadLeft")      -> ControllerButton("DPadLeft")
      [] button = SdlButton("DPadRight")     -> ControllerButton("DPadRight")

\* A copy of the table with two entries of the Up arm exchanged.
button_up_match_swapped(button) ==
    CASE button = SdlButton("DPadLeft")  -> ControllerButton("DPadRight")
      [] button = SdlButton("DPadRight") -> ControllerButton("DPadLeft")
      [] OTHER -> button_down_match(button)

\* The match on button inside the ControllerButtonUp arm.
button_up_match(button) ==
    CASE button = SdlButton("A")             -> ControllerButton("A")
      [] button = SdlButton("B")             -> ControllerButton("B")
      [] button = SdlButton("X")             -> ControllerButton("X")
      [] button = SdlButton("Y")             -> ControllerButton("Y")
      [] button = SdlButton("Back")          -> ControllerButton("Back")
      [] button = SdlButton("Guide")         -> ControllerButton("Guide")
      [] button = SdlButton("Start")         -> ControllerButton("Start")
      [] button = SdlButton("LeftStick")     -> ControllerButton("LeftStick")
      [] button = SdlButton("RightStick")    -> ControllerButton("RightStick")
      [] button = SdlButton("LeftShoulder")  -> ControllerButton("LeftShoulder")
      [] button = SdlButton("RightShoulder") -> ControllerButton("RightShoulder")
      [] button = SdlButton("DPadUp")        -> ControllerButton("DPadUp")
      [] button = SdlButton("DPadDown")      -> ControllerButton("DPadDown")
      [] button = SdlButton("DPadLeft")      -> ControllerButton("DPadLeft")
      [] button = SdlButton("DPadRight")     -> ControllerButton("DPadRight")

(***************************************************************************)
(* The match of poll_event on one native event.  An arm either yields the  *)
(* normalized event or is `continue` (the loop polls again).               *)
(***************************************************************************)
Continue == [arm |-> "continue"]
Yield(event) == [arm |-> "event", event |-> event]

window_event_match(win_event) ==
    CASE win_event.tag = "Moved" ->
            Yield([kind |-> "WindowMoved", x |-> win_event.a, y |-> win_event.b])
      [] win_event.tag = "Resized" ->
            Yield([kind |-> "WindowResized", width |-> win_event.a,
                   height |-> win_event.b])
      [] OTHER -> Continue

event_match(sdl_event) ==
    CASE sdl_event.kind = "Quit" -> Yield([kind |-> "Quit"])
      [] sdl_event.kind = "DropFile" ->
            Yield([kind |-> "DropFile", filename |-> sdl_event.filename])
      [] sdl_event.kind = "Window" -> window_event_match(sdl_event.win_event)
      [] sdl_event.kind = "KeyDown" /\ ~is_none(sdl_event.scancode) ->
            Yield([kind |-> "KeyDown",
                   key |-> scancode_as_u32(unwrap_some(sdl_event.scancode))])
      [] sdl_event.kind = "KeyUp" /\ ~is_none(sdl_event.scancode) ->
            Yield([kind |-> "KeyUp",
                   key |-> scancode_as_u32(unwrap_some(sdl_event.scancode))])
      [] sdl_event.kind = "TextInput" ->
            Yield([kind |-> "TextInput", text |-> sdl_event.text])
      [] sdl_event.kind = "MouseMotion" ->
            Yield([kind |-> "MouseMotion", x |-> sdl_event.x, y |-> sdl_event.y])
      [] sdl_event.kind = "MouseButtonDown" ->
            Yield([kind |-> "MouseButtonDown",
                   button |-> mouse_button_down_match(sdl_event.mouse_btn)])
      [] sdl_event.kind = "MouseButtonUp" ->
            Yield([kind |-> "MouseButtonUp",
                   button |-> mouse_button_up_match(sdl_event.mouse_btn)])
      [] sdl_event.kind = "MouseWheel" ->
            Yield([kind |-> "MouseWheel", x |-> sdl_event.x, y |-> sdl_event.y])
      [] sdl_event.kind = "ControllerAxisMotion" ->
            Yield([kind |-> "ControllerAxisMotion", which |-> sdl_event.which,
                   axis |-> axis_match(sdl_event.axis),
                   value |-> i16_as_i32(sdl_event.value)])
      [] sdl_event.kind = "ControllerButtonDown" ->
            Yield([kind |-> "ControllerButtonDown", which |-> sdl_event.which,
                   button |-> button_down_match(sdl_event.button)])
      [] sdl_event.kind = "ControllerButtonUp" ->
            Yield([kind |-> "ControllerButtonUp", which |-> sdl_event.which,
                   button |-> button_up_match(sdl_event.button)])
      [] OTHER -> Continue

(***************************************************************************)
(* The loop of poll_event run on a native queue q: the result, the queue   *)
(* left behind and the number of native events taken.                      *)
(***************************************************************************)
\* The loop with `return None` in place of `continue`.
poll_loop_return_on_unmapped(q) ==
    IF q = <<>>
    THEN [result |-> None, rest |-> <<>>, taken |-> 0]
    ELSE LET m == event_match(Head(q))
         IN  IF m.arm = "continue"
             THEN [result |-> None, rest |-> Tail(q), taken |-> 1]
             ELSE [result |-> Some(m.event), rest |-> Tail(q), taken |-> 1]

RECURSIVE poll_loop(_)
poll_loop(q) ==
    IF q = <<>>
    THEN [result |-> None, rest |-> <<>>, taken |-> 0]
    ELSE LET m == event_match(Head(q))
         IN  IF m.arm = "continue"
             THEN LET r == poll_loop(Tail(q))
                  IN  [r EXCEPT !.taken = @ + 1]
             ELSE [result |-> Some(m.event), rest |-> Tail(q), taken |-> 1]

(***************************************************************************)
(* Native events.  One of each kind the adapter matches on, with two       *)
(* payloads where a payload exists, and the kinds it lets fall through.    *)
(***************************************************************************)
Filenames == {"a.png", "b.pyxel"}
Texts == {"a", "zz"}
Coords == {<<-3, 7>>, <<5, 0>>}
Scancodes == {SdlScancode(4), SdlScancode(225)}
ControllerInputs == {<<0, -32768>>, <<1, 32767>>}   \* <<which, value>>

SdlWindowEvents ==
    {[tag |-> t, a |-> c[1], b |-> c[2]] : t \in {"Moved", "Resized"}, c \in Coords}
    \cup {[tag |-> "Shown"], [tag |-> "FocusGained"]}

SdlEvents ==
    {[kind |-> "Quit"]}
    \cup {[kind |-> "DropFile", filename |-> f] : f \in Filenames}
    \cup {[kind |-> "Window", win_event |-> w] : w \in SdlWindowEvents}
    \cup {[kind |-> k, scancode |-> s] :
            k \in {"KeyDown", "KeyUp"}, s \in {None} \cup {Some(c) : c \in Scancodes}}
    \cup {[kind |-> "TextInput", text |-> t] : t \in Texts}
    \cup {[kind |-> k, x |-> c[1], y |-> c[2]] :
            k \in {"MouseMotion", "MouseWheel"}, c \in Coords}
    \cup {[kind |-> k, mouse_btn |-> SdlMouseButton(b)] :
            k \in {"MouseButtonDown", "MouseButtonUp"}, b \in MouseButtonNames}
    \cup {[kind |-> "ControllerAxisMotion", which |-> c[1], axis |-> SdlAxis(a),
           value |-> c[2]] : a \in AxisNames, c \in ControllerInputs}
    \cup {[kind |-> k, which |-> w, button |-> SdlButton(b)] :
            k \in {"ControllerButtonDown", "ControllerButtonUp"},
            w \in {0}, b \in ButtonNames}
    \cup {[kind |-> "JoyAxisMotion"], [kind |-> "AppTerminating"]}

\* A few events of every class, for the runs that vary the queue.
QueueEvents ==
    {[kind |-> "Quit"],
     [kind |-> "Window", win_event |-> [tag |-> "Moved", a |-> 5, b |-> 0]],
     [kind |-> "Window", win_event |-> [tag |-> "Shown"]],
     [kind |-> "KeyDown", scancode |-> Some(SdlScancode(4))],
     [kind |-> "KeyDown", scancode |-> None],
     [kind |-> "JoyAxisMotion"]}

\* The most events the native library queues in one run.
MaxEvents == 3

NoPoll == [called |-> FALSE, before |-> <<>>, after |-> <<>>, result |-> None,
           taken |-> 0]

(***************************************************************************)
(* Fallible native calls.  A native call returns "Ok" or "Err"; the        *)
(* adapter applies .unwrap() to every Result it gets.                      *)
(***************************************************************************)

\* An unwrap that swallows the error and carries on.
unwrap_ignoring_err(result) == "value"

\* Result::unwrap: the value, or a panic on Err.
unwrap(result) == IF result = "Err" THEN "panic" ELSE "value"

Call(name, fallible) == [name |-> name, fallible |-> fallible]

\* Runs the native calls ops[i..] of one operation in program order, after the
\* calls `made`.  err_at is the call the native library fails (0: none).
\* `failed` is what the library reported, whatever the adapter made of it.
RECURSIVE run_calls(_, _, _, _, _)
run_calls(ops, err_at, i, made, reported) ==
    IF i > Len(ops)
    THEN [calls |-> made, failed |-> reported, outcome |-> "returned"]
    ELSE LET result == IF ops[i].fallible /\ err_at = i THEN "Err" ELSE "Ok"
         IN  IF ops[i].fallible /\ unwrap(result) = "panic"
             THEN [calls |-> Append(made, ops[i].name), failed |-> ops[i].name,
                   outcome |-> "panicked"]
             ELSE run_calls(ops, err_at, i + 1, Append(made, ops[i].name),
                            IF result = "Err" THEN ops[i].name ELSE reported)

\* The indices of the calls of ops that can fail, and 0 for no failure.
ErrChoices(ops) == {0} \cup {i \in 1..Len(ops) : ops[i].fallible}

\* Whether the call named n was made and did not panic.
Passed(r, n) == (\E i \in 1..Len(r.calls) : r.calls[i] = n)
                /\ ~(r.outcome = "panicked" /\ r.failed = n)

(***************************************************************************)
(* Platform::new                                                           *)
(***************************************************************************)
MaxDim == 2     \* frame width and height range over 1..MaxDim
MaxScale == 2   \* the initial window scale ranges over 1..MaxScale
MaxPad == 1     \* a texture row has 0..MaxPad bytes of padding
MaxWin == 5     \* the window width and height range over 0..MaxWin

\* A texture has at least one pixel, so a frame side is never 0.  The minimum
\* size binds interactive resizing only: the window manager or a fullscreen
\* mode may give the window any size, smaller than the frame included.
Dims == 1..MaxDim
Scales == 1..MaxScale
Pads == 0..MaxPad
Fills == {0, 255}     \* the bytes of a texture the adapter never wrote
WindowSizes == (0..MaxWin) \X (0..MaxWin)

platform_new_calls ==
    <<Call("sdl2::init", TRUE), Call("video", TRUE), Call("window.build", TRUE),
      Call("into_canvas.build", TRUE), Call("create_texture_streaming", TRUE),
      Call("timer", TRUE), Call("event_pump", TRUE), Call("audio", TRUE),
      Call("set_minimum_size", TRUE)>>

NoRender == [called |-> FALSE]
NoWindow == [title |-> "", fullscreen |-> FALSE, size |-> <<0, 0>>,
             minimum_size |-> <<0, 0>>]
NoAudio == [device |-> "none", init_pc |-> "idle", desired |-> None, args |-> None,
            mutex |-> "free", poisoned |-> FALSE, audio_thread |-> "idle",
            engine_thread |-> "idle", cb_calls |-> <<>>, cb_failed |-> ""]

main_thread_free == platform = "live" /\ audio.init_pc \in {"idle", "returned"}

\* Platform::new(title, width, height, scale).  The native library chooses the
\* texture's row padding and initial bytes, and which call fails, if any.
platform_new(title, width, height, scale, pad, fill, err_at) ==
    LET r == run_calls(platform_new_calls, err_at, 1, <<>>, "")
        texture_pitch == width * 3 + pad
    IN  /\ platform = "none"
        /\ calls' = r.calls
        /\ failed' = r.failed
        /\ outcome' = r.outcome
        /\ IF r.outcome = "panicked"
           THEN /\ platform' = "panicked"
                /\ UNCHANGED videoVars
           ELSE /\ platform' = "live"
                /\ frame' = <<width, height>>
                /\ pitch' = texture_pitch
                /\ buffer' = [k \in 0..(texture_pitch * height - 1) |-> fill]
                /\ window' = [title |-> title, fullscreen |-> FALSE,
                              size |-> <<width * scale, height * scale>>,
                              minimum_size |-> <<width, height>>]
                /\ render' = NoRender
        /\ UNCHANGED <<eventVars, audio>>

\* Platform::set_window_title
set_window_title(title, err_at) ==
    LET r == run_calls(<<Call("set_title", TRUE)>>, err_at, 1, <<>>, "")
    IN  /\ main_thread_free
        /\ calls' = r.calls
        /\ failed' = r.failed
        /\ outcome' = r.outcome
        /\ platform' = IF r.outcome = "panicked" THEN "panicked" ELSE platform
        /\ window' = IF Passed(r, "set_title") THEN [window EXCEPT !.title = title]
                     ELSE window
        /\ UNCHANGED <<eventVars, frame, pitch, buffer, render, audio>>

\* Platform::set_fullscreen
set_fullscreen(is_fullscreen, err_at) ==
    LET r == run_calls(<<Call("set_fullscreen", TRUE)>>, err_at, 1, <<>>, "")
    IN  /\ main_thread_free
        /\ calls' = r.calls
        /\ failed' = r.failed
        /\ outcome' = r.outcome
        /\ platform' = IF r.outcome = "panicked" THEN "panicked" ELSE platform
        /\ window' = IF Passed(r, "set_fullscreen")
                     THEN [window EXCEPT !.fullscreen = is_fullscreen]
                     ELSE window
        /\ UNCHANGED <<eventVars, frame, pitch, buffer, render, audio>>

(***************************************************************************)
(* Platform::render_screen                                                 *)
(***************************************************************************)

\* The 8-bit colour indices the frames use, and the frames: frame k holds at
\* (i, j) the index at place k + i*width + j of the cycle.
IndexCycle == <<0, 7, 255>>
ImageIds == 1..Len(IndexCycle)
screen_data(k, width, i, j) == IndexCycle[((k + i * width + j) % Len(IndexCycle)) + 1]

\* Palettes: display_color(index) is a u32 whose low 24 bits are the colour.
Palettes == {"a", "b"}
display_color(palette, index) ==
    IF palette = "a"
    THEN CASE index = 0 -> 1056816            \* 0x102030
           [] index = 7 -> 16772829           \* 0xFFEEDD
           [] OTHER     -> 1                  \* 0x000001
    ELSE CASE index = 0 -> 255                \* 0x0000FF
           [] index = 7 -> 27308224           \* 0x01A0B0C0, bits above 23 set
           [] OTHER     -> 8421504            \* 0x808080
BgColors == {3368601}                         \* 0x336699

\* ((color >> shift) & 0xff) as u8
byte_of(color, shift) ==
    CASE shift = 16 -> (color \div 65536) % 256
      [] shift = 8  -> (color \div 256) % 256
      [] shift = 0  -> color % 256

\* The body of the inner loop wrongly stepping 4 bytes per pixel.
write_pixel_stride4(buf, row_pitch, color, i, j) ==
    LET offset == i * row_pitch + j * 4
    IN  IF offset + 2 >= buf.len \/ buf.panic
        THEN [buf EXCEPT !.panic = TRUE]
        ELSE [buf EXCEPT !.bytes = [@ EXCEPT ![offset] = byte_of(color, 16),
                                             ![offset + 1] = byte_of(color, 8),
                                             ![offset + 2] = byte_of(color, 0)]]

\* The body of the inner loop: three indexed stores (an index past the end
\* of the slice panics).  buf is [bytes, len, panic].
write_pixel(buf, row_pitch, color, i, j) ==
    LET offset == i * row_pitch + j * 3
    IN  IF offset + 2 >= buf.len \/ buf.panic
        THEN [buf EXCEPT !.panic = TRUE]
        ELSE [buf EXCEPT !.bytes = [@ EXCEPT ![offset] = byte_of(color, 16),
                                             ![offset + 1] = byte_of(color, 8),
                                             ![offset + 2] = byte_of(color, 0)]]

\* The two nested loops, pixel n = i*width + j onwards, in row-major order.
RECURSIVE copy_loop(_, _, _, _, _, _, _)
copy_loop(buf, row_pitch, image, palette, width, height, n) ==
    IF n >= width * height \/ buf.panic
    THEN buf
    ELSE LET i == n \div width
             j == n % width
             color == display_color(palette, screen_data(image, width, i, j))
         IN  copy_loop(write_pixel(buf, row_pitch, color, i, j), row_pitch, image,
                       palette, width, height, n + 1)

min(a, b) == IF a <= b THEN a ELSE b

\* The frame fitted with the larger of the two ratios.
fit_with_max(window_width, window_height, screen_width, screen_height) ==
    LET a == window_width \div screen_width
        b == window_height \div screen_height
        screen_scale == IF a >= b THEN a ELSE b
    IN  IF window_width < screen_width * screen_scale
           \/ window_height < screen_height * screen_scale
        THEN [arith |-> "subtract with overflow"]
        ELSE [arith |-> "ok",
              scale |-> screen_scale,
              x |-> (window_width - screen_width * screen_scale) \div 2,
              y |-> (window_height - screen_height * screen_scale) \div 2,
              width |-> screen_width * screen_scale,
              height |-> screen_height * screen_scale]

\* The frame fitted without halving the free space.
fit_uncentred(window_width, window_height, screen_width, screen_height) ==
    LET a == window_width \div screen_width
        b == window_height \div screen_height
        screen_scale == IF a <= b THEN a ELSE b
    IN  [arith |-> "ok",
         scale |-> screen_scale,
         x |-> window_width - screen_width * screen_scale,
         y |-> window_height - screen_height * screen_scale,
         width |-> screen_width * screen_scale,
         height |-> screen_height * screen_scale]

\* Lines 334-343: the scale and the arguments of SdlRect::new, in u32
\* arithmetic (a division by zero panics; a subtraction below zero overflows).
\* x and y are at most half the window size, so `as i32` keeps their value.
fit(window_width, window_height, screen_width, screen_height) ==
    IF screen_width = 0 \/ screen_height = 0
    THEN [arith |-> "divide by zero"]
    ELSE LET screen_scale == min(window_width \div screen_width,
                                 window_height \div screen_height)
         IN  IF window_width < screen_width * screen_scale
                \/ window_height < screen_height * screen_scale
             THEN [arith |-> "subtract with overflow"]
             ELSE [arith |-> "ok",
                   scale |-> screen_scale,
                   x |-> (window_width - screen_width * screen_scale) \div 2,
                   y |-> (window_height - screen_height * screen_scale) \div 2,
                   width |-> screen_width * screen_scale,
                   height |-> screen_height * screen_scale]

render_screen_calls ==
    <<Call("with_lock", TRUE), Call("set_draw_color", FALSE), Call("clear", FALSE),
      Call("window.size", FALSE), Call("copy", TRUE), Call("present", FALSE)>>

\* Platform::render_screen(screen, bg_color).  screen is the engine's frame
\* `image` of the size given to Platform::new; the native library supplies
\* the window size and fails a call, if any.
render_screen(image, palette, bg_color, window_size, err_at) ==
    /\ main_thread_free
    /\ \E r \in {run_calls(render_screen_calls, err_at, 1, <<>>, "")} :
       \E copied \in {IF Passed(r, "with_lock")
                      THEN copy_loop([bytes |-> buffer, len |-> pitch * frame[2],
                                      panic |-> FALSE],
                                     pitch, image, palette, frame[1], frame[2], 0)
                      ELSE [bytes |-> buffer, len |-> pitch * frame[2],
                            panic |-> FALSE]} :
       \E dst \in {IF Passed(r, "window.size") /\ ~copied.panic
                   THEN fit(window_size[1], window_size[2], frame[1], frame[2])
                   ELSE [arith |-> "not reached"]} :
       \* a panic of the adapter's own (index, arithmetic) ends the calls there
       \E made \in {CASE copied.panic -> SubSeq(r.calls, 1, 1)
                      [] dst.arith \notin {"ok", "not reached"} -> SubSeq(r.calls, 1, 4)
                      [] OTHER -> r.calls} :
       \E done \in {[calls |-> made, failed |-> r.failed,
                     outcome |-> IF Len(made) < Len(r.calls) THEN "panicked"
                                 ELSE r.outcome]} :
           /\ calls' = done.calls
           /\ failed' = done.failed
           /\ outcome' = done.outcome
           /\ platform' = IF done.outcome = "panicked" THEN "panicked" ELSE platform
           /\ buffer' = copied.bytes
           /\ window' = IF Passed(done, "window.size")
                        THEN [window EXCEPT !.size = window_size] ELSE window
           /\ render' = [called |-> TRUE, image |-> image, palette |-> palette,
                         before |-> buffer, index_panic |-> copied.panic,
                         draw_color |-> IF Passed(done, "set_draw_color")
                                        THEN <<byte_of(bg_color, 16), byte_of(bg_color, 8),
                                               byte_of(bg_color, 0)>>
                                        ELSE <<>>,
                         window_size |-> window_size, dst |-> dst,
                         copied |-> Passed(done, "copy"),
                         presented |-> Passed(done, "present")]
           /\ UNCHANGED <<eventVars, frame, pitch, audio>>

(***************************************************************************)
(* Platform::init_audio and the native audio thread                        *)
(***************************************************************************)

\* A u32 argument is <<high 16 bits, low 16 bits>>.
U32(hi, lo) == <<hi, lo>>

\* `as i32`: the same 32 bits read as two's complement.
u32_as_i32(v) == IF v[1] >= 32768 THEN (v[1] - 65536) * 65536 + v[2]
                 ELSE v[1] * 65536 + v[2]
\* `as u8`: the low 8 bits.
u32_as_u8(v) == v[2] % 256
\* `as u16`: the low 16 bits.
u32_as_u16(v) == v[2]

SampleRates == {U32(0, 22050), U32(0, 44100), U32(32768, 0)}   \* .., 2^31
ChannelCounts == {U32(0, 1), U32(0, 2), U32(0, 256)}
SampleCounts == {U32(0, 512), U32(1, 0)}                       \* .., 65536

\* init_audio up to open_playback(..).unwrap(): the desired spec is built and
\* the device opened (paused, as the native library opens it), the callback
\* object moved into it.
init_audio_open(sample_rate, channels, sample_count, err_at) ==
    LET spec == [freq |-> Some(u32_as_i32(sample_rate)),
                 channels |-> Some(u32_as_u8(channels)),
                 samples |-> Some(u32_as_u16(sample_count))]
        r == run_calls(<<Call("open_playback", TRUE)>>, err_at, 1, <<>>, "")
    IN  /\ main_thread_free
        /\ audio.device \in {"none", "closed"}
        /\ calls' = r.calls
        /\ failed' = r.failed
        /\ outcome' = IF r.outcome = "panicked" THEN "panicked" ELSE "running"
        /\ platform' = IF r.outcome = "panicked" THEN "panicked" ELSE platform
        /\ audio' = IF r.outcome = "panicked"
                    THEN [audio EXCEPT !.desired = Some(spec),
                                       !.args = Some(<<sample_rate, channels,
                                                       sample_count>>)]
                    ELSE [audio EXCEPT !.desired = Some(spec),
                                       !.args = Some(<<sample_rate, channels,
                                                       sample_count>>),
                                       !.device = IF r.failed = "" THEN "paused"
                                                  ELSE @,
                                       !.init_pc = "opened"]
        /\ UNCHANGED <<eventVars, videoVars>>

\* device.resume()
init_audio_resume ==
    /\ platform = "live"
    /\ audio.init_pc = "opened"
    /\ calls' = Append(calls, "resume")
    /\ audio' = [audio EXCEPT !.device = IF @ = "paused" THEN "playing" ELSE @,
                              !.init_pc = "resumed"]
    /\ UNCHANGED <<eventVars, videoVars, platform, failed, outcome>>

\* The end of init_audio: the local `device` goes out of scope.  Platform has
\* no field for it; dropping the device closes it, which waits for a running
\* callback to return.
init_audio_return ==
    /\ platform = "live"
    /\ audio.init_pc = "resumed"
    /\ audio.audio_thread = "idle"
    /\ calls' = Append(calls, "drop(device)")
    /\ outcome' = "returned"
    /\ audio' = [audio EXCEPT !.device = IF @ = "none" THEN @ ELSE "closed",
                              !.init_pc = "returned"]
    /\ UNCHANGED <<eventVars, videoVars, platform, failed>>

\* The native audio thread invokes MySdlAudioCallback::callback on a playing
\* device.
audio_thread_invoke ==
    /\ platform = "live"
    /\ audio.device = "playing"
    /\ audio.audio_thread = "idle"
    /\ audio' = [audio EXCEPT !.audio_thread = "entered", !.cb_calls = <<>>,
                              !.cb_failed = ""]
    /\ UNCHANGED <<eventVars, videoVars, platform, callVars>>

\* The callback entering the object without taking the lock.
callback_lock_skipped ==
    /\ platform = "live"
    /\ audio.audio_thread = "entered"
    /\ audio' = [audio EXCEPT !.audio_thread = "locked",
                              !.cb_calls = Append(@, "lock")]
    /\ UNCHANGED <<eventVars, videoVars, platform, callVars>>

\* self.audio_callback.lock().unwrap(): waits while the mutex is held; a
\* poisoned mutex gives Err.
callback_lock ==
    LET result == IF audio.poisoned THEN "Err" ELSE "Ok"
    IN  /\ platform = "live"
        /\ audio.audio_thread = "entered"
        /\ audio.mutex = "free"
        /\ IF unwrap(result) = "panic"
           THEN /\ audio' = [audio EXCEPT !.audio_thread = "panicked",
                                          !.cb_calls = Append(@, "lock"),
                                          !.cb_failed = "lock"]
                /\ platform' = "panicked"
           ELSE /\ audio' = [audio EXCEPT !.audio_thread = "locked",
                                          !.mutex = "audio",
                                          !.cb_calls = Append(@, "lock"),
                                          !.cb_failed = IF result = "Err" THEN "lock"
                                                        ELSE @]
                /\ UNCHANGED platform
        /\ UNCHANGED <<eventVars, videoVars, callVars>>

\* audio_callback.audio_callback(out)
callback_call ==
    /\ platform = "live"
    /\ audio.audio_thread = "locked"
    /\ audio' = [audio EXCEPT !.audio_thread = "called",
                              !.cb_calls = Append(@, "audio_callback")]
    /\ UNCHANGED <<eventVars, videoVars, platform, callVars>>

\* The end of callback: the guard is dropped.
callback_return ==
    /\ platform = "live"
    /\ audio.audio_thread = "called"
    /\ audio' = [audio EXCEPT !.audio_thread = "idle",
                              !.mutex = IF @ = "audio" THEN "free" ELSE @]
    /\ UNCHANGED <<eventVars, videoVars, platform, callVars>>

\* An engine thread holding a clone of the Arc locks the mutex, ...
engine_lock ==
    /\ platform = "live"
    /\ audio.engine_thread = "idle"
    /\ audio.mutex = "free"
    /\ ~audio.poisoned
    /\ audio' = [audio EXCEPT !.engine_thread = "locked", !.mutex = "engine"]
    /\ UNCHANGED <<eventVars, videoVars, platform, callVars>>

\* ... unlocks it, ...
engine_unlock ==
    /\ platform = "live"
    /\ audio.engine_thread = "locked"
    /\ audio' = [audio EXCEPT !.engine_thread = "idle", !.mutex = "free"]
    /\ UNCHANGED <<eventVars, videoVars, platform, callVars>>

\* ... or panics while holding it, which poisons the mutex.
engine_panic ==
    /\ platform = "live"
    /\ audio.engine_thread = "locked"
    /\ audio' = [audio EXCEPT !.engine_thread = "dead", !.mutex = "free",
                              !.poisoned = TRUE]
    /\ UNCHANGED <<eventVars, videoVars, platform, callVars>>

(***************************************************************************)
(* State outside the event pump, fixed in the event specifications.        *)
(***************************************************************************)
\* The state Platform::new("pyxel", 1, 1, 1) leaves when no call fails.
RestIdle ==
    /\ platform = "live"
    /\ frame = <<1, 1>>
    /\ pitch = 3
    /\ buffer = [k \in 0..2 |-> 0]
    /\ window = [title |-> "pyxel", fullscreen |-> FALSE, size |-> <<1, 1>>,
                 minimum_size |-> <<1, 1>>]
    /\ render = NoRender
    /\ calls = [i \in 1..Len(platform_new_calls) |-> platform_new_calls[i].name]
    /\ failed = ""
    /\ outcome = "returned"
    /\ audio = NoAudio

\* The native library queues an event (SDL_PushEvent / the OS).
sdl_push_event(e) ==
    /\ Len(consumed) + Len(sdl_event_queue) < MaxEvents
    /\ sdl_event_queue' = Append(sdl_event_queue, e)
    /\ UNCHANGED <<consumed, returned, last_poll>>
    /\ UNCHANGED <<platform, videoVars, callVars, audio>>

\* A poll that waits until the native queue holds an event.
poll_event_blocking ==
    LET r == poll_loop(sdl_event_queue)
    IN  /\ platform = "live"
        /\ sdl_event_queue # <<>>
        /\ sdl_event_queue' = r.rest
        /\ consumed' = consumed \o SubSeq(sdl_event_queue, 1, r.taken)
        /\ returned' = IF is_none(r.result) THEN returned
                       ELSE Append(returned, unwrap_some(r.result))
        /\ last_poll' = [called |-> TRUE, before |-> sdl_event_queue,
                         after |-> r.rest, result |-> r.result, taken |-> r.taken]
        /\ UNCHANGED <<platform, videoVars, callVars, audio>>

\* Platform::poll_event, one call.
poll_event ==
    LET r == poll_loop(sdl_event_queue)
    IN  /\ platform = "live"
        /\ sdl_event_queue' = r.rest
        /\ consumed' = consumed \o SubSeq(sdl_event_queue, 1, r.taken)
        /\ returned' = IF is_none(r.result) THEN returned
                       ELSE Append(returned, unwrap_some(r.result))
        /\ last_poll' = [called |-> TRUE, before |-> sdl_event_queue,
                         after |-> r.rest, result |-> r.result, taken |-> r.taken]
        /\ UNCHANGED <<platform, videoVars, callVars, audio>>

\* The mapping table: the native queue holds any two events, then is polled.
InitMap ==
    /\ sdl_event_queue \in {<<a, b>> : a \in SdlEvents, b \in SdlEvents}
    /\ consumed = <<>>
    /\ returned = <<>>
    /\ last_poll = NoPoll
    /\ RestIdle

NextMap == poll_event

SpecMap == InitMap /\ [][NextMap]_vars

\* The queue discipline: events arrive and are polled in any interleaving.
InitPoll ==
    /\ sdl_event_queue = <<>>
    /\ consumed = <<>>
    /\ returned = <<>>
    /\ last_poll = NoPoll
    /\ RestIdle

NextPoll ==
    \/ \E e \in QueueEvents : sdl_push_event(e)
    \/ poll_event

SpecPoll == InitPoll /\ [][NextPoll]_vars

(***************************************************************************)
(* The video specification: construction, then frames rendered into        *)
(* windows of every size.                                                  *)
(***************************************************************************)
EventsIdle ==
    /\ sdl_event_queue = <<>>
    /\ consumed = <<>>
    /\ returned = <<>>
    /\ last_poll = NoPoll

InitNone ==
    /\ EventsIdle
    /\ platform = "none"
    /\ frame = <<0, 0>>
    /\ pitch = 0
    /\ buffer = <<>>
    /\ window = NoWindow
    /\ render = NoRender
    /\ calls = <<>>
    /\ failed = ""
    /\ outcome = "idle"
    /\ audio = NoAudio

\* The pixel copy: every frame, palette, row padding and texture content,
\* the window left at its initial size.
NextRender ==
    \/ \E width \in Dims, height \in Dims, pad \in Pads, fill \in Fills,
          err_at \in ErrChoices(platform_new_calls) :
          platform_new("pyxel", width, height, 1, pad, fill, err_at)
    \/ \E image \in ImageIds, palette \in Palettes, bg_color \in BgColors,
          err_at \in ErrChoices(render_screen_calls) :
          render_screen(image, palette, bg_color, window.size, err_at)

SpecRender == InitNone /\ [][NextRender]_vars

\* The frame fit: every frame size and every window size, one frame content.
NextFit ==
    \/ \E width \in Dims, height \in Dims, scale \in Scales,
          err_at \in ErrChoices(platform_new_calls) :
          platform_new("pyxel", width, height, scale, 0, 0, err_at)
    \/ \E window_size \in WindowSizes, bg_color \in BgColors,
          err_at \in ErrChoices(render_screen_calls) :
          render_screen(1, "a", bg_color, window_size, err_at)

SpecFit == InitNone /\ [][NextFit]_vars

(***************************************************************************)
(* The audio specification: init_audio on a constructed platform, the      *)
(* native audio thread and an engine thread sharing the callback object.   *)
(***************************************************************************)
InitLive == EventsIdle /\ RestIdle

AudioThreads ==
    \/ audio_thread_invoke
    \/ callback_lock
    \/ callback_call
    \/ callback_return
    \/ engine_lock
    \/ engine_unlock
    \/ engine_panic

NextAudio ==
    \/ \E sample_rate \in SampleRates, channels \in ChannelCounts,
          sample_count \in SampleCounts, err_at \in {0, 1} :
          init_audio_open(sample_rate, channels, sample_count, err_at)
    \/ init_audio_resume
    \/ init_audio_return
    \/ AudioThreads

SpecAudio == InitLive /\ [][NextAudio]_vars

(***************************************************************************)
(* The whole adapter on one input per operation, every native call free to *)
(* fail.                                                                   *)
(***************************************************************************)
Next ==
    \/ \E err_at \in ErrChoices(platform_new_calls) :
          platform_new("pyxel", 2, 1, 1, 0, 0, err_at)
    \/ \E err_at \in {0, 1} : set_window_title("title", err_at)
    \/ \E is_fullscreen \in BOOLEAN, err_at \in {0, 1} :
          set_fullscreen(is_fullscreen, err_at)
    \/ \E bg_color \in BgColors, err_at \in ErrChoices(render_screen_calls) :
          render_screen(1, "a", bg_color, window.size, err_at)
    \/ \E err_at \in {0, 1} :
          init_audio_open(U32(0, 22050), U32(0, 1), U32(0, 512), err_at)
    \/ init_audio_resume
    \/ init_audio_return
    \/ AudioThreads

Spec == InitNone /\ [][Next]_vars

(***************************************************************************)
(* The event mapping as the specification states it: the normalized event  *)
(* of the same kind, carrying the same payload, enumeration values keeping *)
(* their names.                                                            *)
(***************************************************************************)
Mappable(e) ==
    \/ e.kind \in {"Quit", "DropFile", "TextInput", "MouseMotion", "MouseButtonDown",
                   "MouseButtonUp", "MouseWheel", "ControllerAxisMotion",
                   "ControllerButtonDown", "ControllerButtonUp"}
    \/ e.kind = "Window" /\ e.win_event.tag \in {"Moved", "Resized"}
    \/ e.kind \in {"KeyDown", "KeyUp"} /\ e.scancode # None

SameKind(e, ev) ==
    IF e.kind = "Window" THEN ev.kind = "Window" \o e.win_event.tag
    ELSE ev.kind = e.kind

SameName(native, enum, value) == value[1] = enum /\ value[2] = native[2]

SamePayload(e, ev) ==
    CASE e.kind = "Quit" -> DOMAIN ev = {"kind"}
      [] e.kind = "DropFile" -> ev.filename = e.filename
      [] e.kind = "Window" /\ e.win_event.tag = "Moved" ->
            ev.x = e.win_event.a /\ ev.y = e.win_event.b
      [] e.kind = "Window" /\ e.win_event.tag = "Resized" ->
            ev.width = e.win_event.a /\ ev.height = e.win_event.b
      [] e.kind \in {"KeyDown", "KeyUp"} -> ev.key = e.scancode[2][2]
      [] e.kind = "TextInput" -> ev.text = e.text
      [] e.kind \in {"MouseMotion", "MouseWheel"} -> ev.x = e.x /\ ev.y = e.y
      [] e.kind \in {"MouseButtonDown", "MouseButtonUp"} ->
            SameName(e.mouse_btn, "MouseButton", ev.button)
      [] e.kind = "ControllerAxisMotion" ->
            /\ ev.which = e.which
            /\ ev.value = e.value
            /\ SameName(e.axis, "ControllerAxis", ev.axis)
      [] e.kind \in {"ControllerButtonDown", "ControllerButtonUp"} ->
            /\ ev.which = e.which
            /\ SameName(e.button, "ControllerButton", ev.button)

IsImage(e, ev) == SameKind(e, ev) /\ SamePayload(e, ev)

\* The native enumeration value an event carries, if any.
NativeEnum(e) ==
    CASE e.kind \in {"MouseButtonDown", "MouseButtonUp"} -> e.mouse_btn
      [] e.kind = "ControllerAxisMotion" -> e.axis
      [] e.kind \in {"ControllerButtonDown", "ControllerButtonUp"} -> e.button
      [] OTHER -> <<"none", "">>

EngineEnum(ev) ==
    CASE ev.kind \in {"MouseButtonDown", "MouseButtonUp", "ControllerButtonDown",
                      "ControllerButtonUp"} -> ev.button
      [] ev.kind = "ControllerAxisMotion" -> ev.axis
      [] OTHER -> <<"none", "">>

RECURSIVE MappableOnly(_)
MappableOnly(q) ==
    IF q = <<>> THEN <<>>
    ELSE IF Mappable(Head(q)) THEN <<Head(q)>> \o MappableOnly(Tail(q))
         ELSE MappableOnly(Tail(q))

\* C1: a poll of a queue whose front event is of a mapped kind returns the
\* normalized event of the same kind with the same payload, taking that one
\* event; enumeration values keep their names, so over any two polled events
\* the three sub-mappings are injective and agree between Down and Up.
C1_MappingTable ==
    /\ (last_poll.called /\ last_poll.before # <<>> /\ Mappable(Head(last_poll.before)))
         => /\ ~is_none(last_poll.result)
            /\ last_poll.taken = 1
            /\ IsImage(Head(last_poll.before), unwrap_some(last_poll.result))
    /\ \A i, j \in 1..Len(returned) :
         LET a == MappableOnly(consumed)[i]
             b == MappableOnly(consumed)[j]
         IN  (NativeEnum(a)[1] = NativeEnum(b)[1] /\ NativeEnum(a)[1] # "none")
               => (NativeEnum(a) = NativeEnum(b)
                     <=> EngineEnum(returned[i]) = EngineEnum(returned[j]))

\* C1 witness: a ControllerButtonDown and a ControllerButtonUp of the same
\* native button have both been polled.
C1_Witness ==
    /\ Len(returned) = 2
    /\ consumed[1].kind = "ControllerButtonDown"
    /\ consumed[2].kind = "ControllerButtonUp"
    /\ consumed[1].button = SdlButton("DPadRight")
    /\ consumed[2].button = SdlButton("DPadRight")

\* C4: the events returned so far are the images, in native order, of the
\* mappable events consumed so far; a call takes the events up to and
\* including the first mappable one (all of them if none is mappable); an
\* unmapped event is never returned.
C4_NoInternalQueue ==
    /\ Len(returned) = Len(MappableOnly(consumed))
    /\ \A i \in 1..Len(returned) : IsImage(MappableOnly(consumed)[i], returned[i])
    /\ last_poll.called =>
         /\ last_poll.taken \in 0..Len(last_poll.before)
         /\ last_poll.before
              = SubSeq(last_poll.before, 1, last_poll.taken) \o last_poll.after
         /\ \A i \in 1..(last_poll.taken - 1) : ~Mappable(last_poll.before[i])
         /\ \/ /\ last_poll.taken >= 1
               /\ Mappable(last_poll.before[last_poll.taken])
               /\ ~is_none(last_poll.result)
               /\ IsImage(last_poll.before[last_poll.taken],
                          unwrap_some(last_poll.result))
            \/ /\ last_poll.taken = Len(last_poll.before)
               /\ \A i \in 1..last_poll.taken : ~Mappable(last_poll.before[i])
               /\ is_none(last_poll.result)

\* C4 witness: a call skipped an unmapped event, returned the mappable one
\* behind it and left a later event queued.
C4_Witness ==
    /\ last_poll.called
    /\ last_poll.taken = 2
    /\ ~is_none(last_poll.result)
    /\ last_poll.after # <<>>

\* C5: a call takes at most the events the queue held, is enabled whatever
\* the queue holds (it never waits for an event), and returns None exactly
\* when it drained the queue without meeting a mappable event.
C5_NonBlocking ==
    /\ ENABLED poll_event
    /\ last_poll.called =>
         /\ last_poll.taken <= Len(last_poll.before)
         /\ is_none(last_poll.result)
              <=> (\A i \in 1..Len(last_poll.before) : ~Mappable(last_poll.before[i]))
         /\ is_none(last_poll.result)
              => (last_poll.after = <<>> /\ last_poll.taken = Len(last_poll.before))
         /\ last_poll.before = <<>>
              => (is_none(last_poll.result) /\ last_poll.taken = 0)

\* C5 witness: a call on an empty queue returned None, and events arrived
\* only afterwards.
C5_Witness ==
    /\ last_poll.called
    /\ last_poll.before = <<>>
    /\ is_none(last_poll.result)
    /\ sdl_event_queue # <<>>

(***************************************************************************)
(* Frame presentation                                                      *)
(***************************************************************************)
Smaller(a, b) == IF a < b THEN a ELSE b
Distance(a, b) == IF a < b THEN b - a ELSE a - b

\* C2: a render_screen call that no native call fails presents the frame in
\* the rectangle scale = min(window_w / frame_w, window_h / frame_h),
\* width = frame_w * scale, height = frame_h * scale,
\* x = (window_w - frame_w * scale) / 2, y = (window_h - frame_h * scale) / 2.
C2_FrameFit ==
    (render.called /\ failed = "") =>
        LET window_w == render.window_size[1]
            window_h == render.window_size[2]
            frame_w == frame[1]
            frame_h == frame[2]
            scale == Smaller(window_w \div frame_w, window_h \div frame_h)
        IN  /\ render.presented
            /\ render.dst.arith = "ok"
            /\ render.dst.scale = scale
            /\ render.dst.width = frame_w * scale
            /\ render.dst.height = frame_h * scale
            /\ render.dst.x = (window_w - frame_w * scale) \div 2
            /\ render.dst.y = (window_h - frame_h * scale) \div 2

\* C2 witness: a frame narrower than tall presented at scale 2 with a
\* horizontal offset.
C2_Witness ==
    /\ render.called
    /\ render.presented
    /\ frame[1] < frame[2]
    /\ render.dst.scale = 2
    /\ render.dst.x = 1

\* C10: the minimum size of the window is the frame size, and a render into
\* a window at least as large as the frame (frame sides >= 1) divides by no
\* zero, underflows no subtraction, has scale >= 1, puts the rectangle
\* inside the window and leaves margins that differ by at most 1.
C10_FitInsideWindow ==
    /\ platform = "live" => window.minimum_size = frame
    /\ (/\ render.called
        /\ render.dst.arith # "not reached"
        /\ frame[1] >= 1 /\ render.window_size[1] >= frame[1]
        /\ frame[2] >= 1 /\ render.window_size[2] >= frame[2])
       => /\ render.dst.arith = "ok"
          /\ render.dst.scale >= 1
          /\ frame[1] * render.dst.scale <= render.window_size[1]
          /\ frame[2] * render.dst.scale <= render.window_size[2]
          /\ render.dst.x >= 0
          /\ render.dst.y >= 0
          /\ render.dst.x + render.dst.width <= render.window_size[1]
          /\ render.dst.y + render.dst.height <= render.window_size[2]
          /\ Distance(render.dst.x,
                      render.window_size[1] - (render.dst.x + render.dst.width)) <= 1
          /\ Distance(render.dst.y,
                      render.window_size[2] - (render.dst.y + render.dst.height)) <= 1

\* C10 witness: a render into a larger window whose free width is odd, so
\* the left and right margins differ by exactly 1.
C10_Witness ==
    /\ render.called
    /\ render.presented
    /\ render.window_size[1] > frame[1]
    /\ render.window_size[2] >= frame[2]
    /\ render.window_size[1] - (render.dst.x + render.dst.width) = render.dst.x + 1
    /\ render.dst.x >= 1

\* The byte positions of pixel (i, j), and all of them.
PixelBytes(i, j) == {i * pitch + j * 3 + c : c \in 0..2}
FrameBytes == UNION {PixelBytes(i, j) : i \in 0..(frame[2] - 1), j \in 0..(frame[1] - 1)}

\* C3: after the copy loop of a render whose texture lock succeeded, the
\* three bytes at i*pitch + j*3 are the red, green and blue bytes of the
\* display colour of screen_data[i][j], for every pixel of the frame, and
\* every other byte of the buffer is as it was.
C3_PixelCopy ==
    (render.called /\ failed # "with_lock") =>
        /\ ~render.index_panic
        /\ DOMAIN buffer = DOMAIN render.before
        /\ \A i \in 0..(frame[2] - 1), j \in 0..(frame[1] - 1) :
              LET color == display_color(render.palette,
                                         screen_data(render.image, frame[1], i, j))
                  offset == i * pitch + j * 3
              IN  /\ buffer[offset] = (color \div 65536) % 256
                  /\ buffer[offset + 1] = (color \div 256) % 256
                  /\ buffer[offset + 2] = color % 256
        /\ \A k \in DOMAIN buffer \ FrameBytes : buffer[k] = render.before[k]

\* C3 witness: a two-by-two frame copied into a padded texture, over bytes
\* that differed.
C3_Witness ==
    /\ render.called
    /\ failed # "with_lock"
    /\ frame = <<2, 2>>
    /\ pitch > 3 * frame[1]
    /\ buffer # render.before
    /\ buffer[pitch - 1] = 255

(***************************************************************************)
(* Audio                                                                   *)
(***************************************************************************)

\* C6: the audio thread is inside the callback object only while it holds
\* the mutex, never together with the engine thread, and holds the mutex at
\* no other time (it is released when the callback returns).
C6_MutexGuarded ==
    /\ audio.audio_thread \in {"locked", "called"} => audio.mutex = "audio"
    /\ audio.mutex = "audio" => audio.audio_thread \in {"locked", "called"}
    /\ audio.engine_thread = "locked" => audio.mutex = "engine"
    /\ ~(audio.audio_thread \in {"locked", "called"} /\ audio.engine_thread = "locked")
    /\ audio.audio_thread = "called" => audio.cb_calls = <<"lock", "audio_callback">>

\* C6 witness: the engine thread holds the mutex while the audio thread has
\* entered callback and waits for it.
C6_Witness ==
    /\ audio.audio_thread = "entered"
    /\ audio.engine_thread = "locked"
    /\ audio.mutex = "engine"

\* C7: once init_audio has returned, the device it opened is open and
\* playing.
C7_DeviceStaysOpen == audio.init_pc = "returned" => audio.device = "playing"

\* The value of a u32 argument equals the number n.
U32Is(v, n) == v[1] < 32768 /\ n = v[1] * 65536 + v[2]

\* C9: the desired spec handed to open_playback has freq = sample_rate,
\* channels = channels and samples = sample_count.
C9_ExactValues ==
    audio.desired # None =>
        /\ U32Is(audio.args[2][1], audio.desired[2].freq[2])
        /\ U32Is(audio.args[2][2], audio.desired[2].channels[2])
        /\ U32Is(audio.args[2][3], audio.desired[2].samples[2])

(***************************************************************************)
(* Failure of native calls                                                 *)
(***************************************************************************)
Occurrences(seq, x) == Cardinality({i \in 1..Len(seq) : seq[i] = x})

\* C8: when a native call of an operation reports failure the operation
\* panics at that call: the failed call is the last one made, it was made
\* once, the operation did not return and the platform is gone; the same
\* holds of the mutex lock in the audio callback, after which audio_callback
\* is not invoked.
C8_FailureIsFatal ==
    /\ failed # "" =>
          /\ outcome = "panicked"
          /\ platform = "panicked"
          /\ calls # <<>>
          /\ calls[Len(calls)] = failed
          /\ Occurrences(calls, failed) = 1
    /\ audio.cb_failed # "" =>
          /\ audio.audio_thread = "panicked"
          /\ platform = "panicked"
          /\ audio.cb_calls = <<"lock">>
    /\ outcome = "returned" => failed = ""

\* C8 witness: the canvas copy of render_screen failed after the texture
\* lock and the calls between them succeeded.
C8_Witness ==
    /\ failed = "copy"
    /\ outcome = "panicked"
    /\ calls = <<"with_lock", "set_draw_color", "clear", "window.size", "copy">>
    /\ ~render.presented

====
